---------------------------- MODULE Spec2Model ----------------------------
(***************************************************************************)
(* A model of bin/locate-thumbnail.py: the ratio test (filter_matches),    *)
(* the rotation classifier (autorotate_image), the downscale               *)
(* (fit_image_within), the region reconstruction (reconstruct_thumbnail),  *)
(* and the driver (locate_thumbnail, main).                                *)
(*                                                                         *)
(* Numbers.  Python floats are modelled by exact rational arithmetic on    *)
(* integers: a ratio is num/RatioDen, a homography is an integer 3x3       *)
(* matrix (a projective map is unchanged by a common factor, so a rational *)
(* matrix is an integer one), and round()/int32() are computed from        *)
(* numerators and denominators.  For the small magnitudes explored here    *)
(* the float results are the exact ones.                                   *)
(***************************************************************************)
EXTENDS Integers, Sequences, FiniteSets, TLC

VARIABLES
    \* filter_matches
    raw_matches, ratio_lo, ratio_hi, kp_pairs_lo, kp_pairs_hi, fm_pc,
    \* fit_image_within
    fit_in, fit_out, fit_pc,
    \* autorotate_image
    rot_corners, rot_img, rot_out, rot_pc,
    \* reconstruct_thumbnail and the report of locate_thumbnail
    thumb_shape, source_shape, H, recon, report, geom_pc,
    \* main and locate_thumbnail
    nfiles, args, main_pc, file_i, loc_pc, kp_count, title_bound,
    calls, stdout, logged, attempted, raised

fmVars  == <<raw_matches, ratio_lo, ratio_hi, kp_pairs_lo, kp_pairs_hi, fm_pc>>
fitVars == <<fit_in, fit_out, fit_pc>>
rotVars == <<rot_corners, rot_img, rot_out, rot_pc>>
geomVars == <<thumb_shape, source_shape, H, recon, report, geom_pc>>
batchVars == <<nfiles, args, main_pc, file_i, loc_pc, kp_count, title_bound,
               calls, stdout, logged, attempted, raised>>
vars    == <<fmVars, fitVars, rotVars, geomVars, batchVars>>

Abs(x) == IF x < 0 THEN -x ELSE x
Min(S) == CHOOSE x \in S : \A y \in S : x <= y
Max(S) == CHOOSE x \in S : \A y \in S : x >= y

(***************************************************************************)
(* filter_matches                                                          *)
(***************************************************************************)
\* Longest raw match list explored.
MaxRaw == 2
\* Largest descriptor distance explored.
MaxDist == 2
\* Ratios explored are 0/4 .. MaxRatioNum/4.
MaxRatioNum == 4
\* Denominator of the ratios; the default ratio 0.75 is 3/RatioDen.
RatioDen == 4

\* One row of knnMatch(k=2): the nearest neighbour m1 (its query index and
\* distance) and the second nearest m2 (its distance).
RawMatch(q, d1, d2) == [queryIdx |-> q, m1_distance |-> d1, m2_distance |-> d2]

RawMatchLists ==
    UNION { { [k \in 1..n |-> RawMatch(k, f[k][1], f[k][2])] :
              f \in [1..n -> (0..MaxDist) \X (0..MaxDist)] } : n \in 0..MaxRaw }

\* A faulty ratio test: the comparison made non-strict.
KeepMatchNonStrict(m, num) == m.m1_distance * RatioDen <= m.m2_distance * num

\* m1.distance < m2.distance * ratio, with ratio = num / RatioDen.
KeepMatch(m, num) == m.m1_distance * RatioDen < m.m2_distance * num

\* The pair (kp1[m1.queryIdx], kp2[m1.trainIdx]) appended for m1, identified
\* by the row of m1.
KpPair(m) == m.queryIdx

RECURSIVE filter_matches(_, _)
filter_matches(matches, num) ==
    IF matches = <<>> THEN <<>>
    ELSE LET m    == Head(matches)
             rest == filter_matches(Tail(matches), num)
         IN  IF KeepMatch(m, num) THEN <<KpPair(m)>> \o rest ELSE rest

FilterIdle ==
    /\ raw_matches = <<>> /\ ratio_lo = 0 /\ ratio_hi = 0
    /\ kp_pairs_lo = <<>> /\ kp_pairs_hi = <<>> /\ fm_pc = "idle"

FilterInit ==
    /\ raw_matches \in RawMatchLists
    /\ ratio_lo \in 0..MaxRatioNum
    /\ ratio_hi \in ratio_lo..MaxRatioNum
    /\ kp_pairs_lo = <<>> /\ kp_pairs_hi = <<>>
    /\ fm_pc = "start"

\* The same raw matches filtered with the two ratios.
FilterMatches ==
    /\ fm_pc = "start"
    /\ kp_pairs_lo' = filter_matches(raw_matches, ratio_lo)
    /\ kp_pairs_hi' = filter_matches(raw_matches, ratio_hi)
    /\ fm_pc' = "done"
    /\ UNCHANGED <<raw_matches, ratio_lo, ratio_hi, fitVars, rotVars, geomVars, batchVars>>

(***************************************************************************)
(* fit_image_within                                                        *)
(***************************************************************************)
\* Largest image side explored by the downscale.
MaxFitDim == 5

\* int(round(p / q)) for p >= 0, q > 0: Python 2 rounds halves away from zero.
RoundDiv(p, q) == (2 * p + q) \div (2 * q)

\* The shape of the image returned: the image itself when it fits, else
\* cv2.resize to new_dims = (round(w * scale), round(h * scale)).
fit_image_within(current_h, current_w, max_height, max_width) ==
    IF current_h <= max_height /\ current_w <= max_width
    THEN [h |-> current_h, w |-> current_w, resized |-> FALSE]
    ELSE IF current_h > current_w
         THEN [h |-> RoundDiv(current_h * max_height, current_h),
               w |-> RoundDiv(current_w * max_height, current_h), resized |-> TRUE]
         ELSE [h |-> RoundDiv(current_h * max_width, current_w),
               w |-> RoundDiv(current_w * max_width, current_w), resized |-> TRUE]

\* reconstruct_thumbnail's use of it: only on request and only when the
\* region exceeds the thumbnail on some axis.
Downsize(new_thumb_h, new_thumb_w, thumb_h, thumb_w, downsize_reconstruction) ==
    IF downsize_reconstruction /\ (new_thumb_h > thumb_h \/ new_thumb_w > thumb_w)
    THEN fit_image_within(new_thumb_h, new_thumb_w, thumb_h, thumb_w)
    ELSE [h |-> new_thumb_h, w |-> new_thumb_w, resized |-> FALSE]

FitIdle ==
    /\ fit_in = [current_h |-> 1, current_w |-> 1, max_height |-> 1, max_width |-> 1]
    /\ fit_out = [h |-> 0, w |-> 0, resized |-> FALSE]
    /\ fit_pc = "idle"

FitInit ==
    /\ fit_in \in [current_h : 1..MaxFitDim, current_w : 1..MaxFitDim,
                   max_height : 1..MaxFitDim, max_width : 1..MaxFitDim]
    /\ fit_out = [h |-> 0, w |-> 0, resized |-> FALSE]
    /\ fit_pc = "start"

\* A direct call, as visualize_matches makes it.
FitImageWithin ==
    /\ fit_pc = "start"
    /\ fit_out' = fit_image_within(fit_in.current_h, fit_in.current_w,
                                   fit_in.max_height, fit_in.max_width)
    /\ fit_pc' = "fitted"
    /\ UNCHANGED <<fit_in, fmVars, rotVars, geomVars, batchVars>>

\* The guarded call of reconstruct_thumbnail, with or without the request.
DownsizeReconstruction ==
    /\ fit_pc = "start"
    /\ \E downsize_reconstruction \in BOOLEAN :
         /\ fit_out' = Downsize(fit_in.current_h, fit_in.current_w,
                                fit_in.max_height, fit_in.max_width,
                                downsize_reconstruction)
         /\ fit_pc' = IF downsize_reconstruction THEN "downsized" ELSE "kept"
    /\ UNCHANGED <<fit_in, fmVars, rotVars, geomVars, batchVars>>

(***************************************************************************)
(* Images as numpy views                                                   *)
(***************************************************************************)
\* A view into the source image's pixel buffer: element (i, j), counted
\* from 0, of an h x w view is the source pixel
\* (oy + i*ry + j*cy, ox + i*rx + j*cx).
View(h, w, oy, ox, ry, rx, cy, cx) ==
    [h |-> h, w |-> w, oy |-> oy, ox |-> ox, ry |-> ry, rx |-> rx, cy |-> cy, cx |-> cx]

\* slice(lo, hi) on an axis of length n, as Python resolves it: a negative
\* bound counts from the end, and both bounds are then limited to 0..n.
SliceBound(b, n) ==
    IF b < 0 THEN (IF b + n < 0 THEN 0 ELSE b + n) ELSE (IF b > n THEN n ELSE b)

SliceStart(lo, hi, n) == SliceBound(lo, n)

SliceLen(lo, hi, n) ==
    IF SliceBound(hi, n) > SliceBound(lo, n)
    THEN SliceBound(hi, n) - SliceBound(lo, n) ELSE 0

\* source_image[slice(*crop[0]), slice(*crop[1])]
SliceImage(source_h, source_w, crop) ==
    View(SliceLen(crop[1][1], crop[1][2], source_h),
         SliceLen(crop[2][1], crop[2][2], source_w),
         SliceStart(crop[1][1], crop[1][2], source_h),
         SliceStart(crop[2][1], crop[2][2], source_w),
         1, 0, 0, 1)

\* numpy.rot90(img, 1): out[i][j] = img[j][w-1-i]
Rot90(img) ==
    View(img.w, img.h,
         img.oy + (img.w - 1) * img.cy, img.ox + (img.w - 1) * img.cx,
         -img.cy, -img.cx, img.ry, img.rx)

\* numpy.rot90(img, 3): out[i][j] = img[h-1-j][i]
Rot270(img) ==
    View(img.w, img.h,
         img.oy + (img.h - 1) * img.ry, img.ox + (img.h - 1) * img.rx,
         img.cy, img.cx, -img.ry, -img.rx)

\* cv2.flip(img, -1): out[i][j] = img[h-1-i][w-1-j]
FlipBoth(img) ==
    View(img.h, img.w,
         img.oy + (img.h - 1) * img.ry + (img.w - 1) * img.cy,
         img.ox + (img.h - 1) * img.rx + (img.w - 1) * img.cx,
         -img.ry, -img.rx, -img.cy, -img.cx)

(***************************************************************************)
(* autorotate_image                                                        *)
(***************************************************************************)
\* Largest corner coordinate explored by the classifier.
MaxCoord == 2

\* numpy.argmin / numpy.argmax over a sequence, counted from 0: a scan that
\* keeps the first extreme element.
RECURSIVE ArgScan(_, _, _, _)
ArgScan(s, k, best, wantMax) ==
    IF k > Len(s) THEN best - 1
    ELSE IF (wantMax /\ s[k] > s[best]) \/ (~wantMax /\ s[k] < s[best])
         THEN ArgScan(s, k + 1, k, wantMax)
         ELSE ArgScan(s, k + 1, best, wantMax)

argmin(s) == ArgScan(s, 2, 1, FALSE)
argmax(s) == ArgScan(s, 2, 1, TRUE)

\* corners_x, corners_y = zip(*corners)
CornersX(corners) == [k \in 1..Len(corners) |-> corners[k][1]]
CornersY(corners) == [k \in 1..Len(corners) |-> corners[k][2]]

high_corners(corners) ==
    <<argmin(CornersY(corners)), argmax(CornersY(corners)),
      argmin(CornersX(corners)), argmax(CornersX(corners))>>

\* A faulty classifier: the 270-degree pattern tested against the wrong permutation.
autorotate_image_typo(img, corners) ==
    IF high_corners(corners) = <<0, 1, 3, 1>> THEN [rotation |-> 90, img |-> Rot90(img)]
    ELSE IF high_corners(corners) = <<3, 0, 1, 0>> THEN [rotation |-> 180, img |-> FlipBoth(img)]
    ELSE IF high_corners(corners) = <<1, 3, 0, 1>> THEN [rotation |-> 270, img |-> Rot270(img)]
    ELSE [rotation |-> 0, img |-> img]

autorotate_image(img, corners) ==
    IF high_corners(corners) = <<0, 1, 3, 1>> THEN [rotation |-> 90, img |-> Rot90(img)]
    ELSE IF high_corners(corners) = <<3, 0, 1, 0>> THEN [rotation |-> 180, img |-> FlipBoth(img)]
    ELSE IF high_corners(corners) = <<1, 3, 0, 2>> THEN [rotation |-> 270, img |-> Rot270(img)]
    ELSE [rotation |-> 0, img |-> img]

\* (min(corners_y), max(corners_y)), (min(corners_x), max(corners_x))
CropBox(corners) ==
    << <<Min({corners[k][2] : k \in 1..4}), Max({corners[k][2] : k \in 1..4})>>,
       <<Min({corners[k][1] : k \in 1..4}), Max({corners[k][1] : k \in 1..4})>> >>

NoView == View(0, 0, 0, 0, 0, 0, 0, 0)

RotIdle ==
    /\ rot_corners = <<>> /\ rot_img = NoView
    /\ rot_out = [rotation |-> 0, img |-> NoView] /\ rot_pc = "idle"

\* Four corners anywhere on the grid; the region handed over is the one
\* reconstruct_thumbnail cuts for them out of a (MaxCoord+1)-square source.
RotInit ==
    /\ rot_corners \in [1..4 -> (0..MaxCoord) \X (0..MaxCoord)]
    /\ rot_img = SliceImage(MaxCoord + 1, MaxCoord + 1, CropBox(rot_corners))
    /\ rot_out = [rotation |-> 0, img |-> NoView]
    /\ rot_pc = "start"

AutorotateImage ==
    /\ rot_pc = "start"
    /\ rot_out' = autorotate_image(rot_img, rot_corners)
    /\ rot_pc' = "done"
    /\ UNCHANGED <<rot_corners, rot_img, fmVars, fitVars, geomVars, batchVars>>

(***************************************************************************)
(* reconstruct_thumbnail and the report                                    *)
(***************************************************************************)
\* Largest thumbnail and source side explored.
MaxDim == 3

\* The 3x3 matrix ((a, b, c), (d, e, f), (g, h, i)).
Homography(a, b, c, d, e, f, g, h, i) ==
    [a |-> a, b |-> b, c |-> c, d |-> d, e |-> e, f |-> f, g |-> g, h |-> h, i |-> i]

\* numpy.int32 of a quotient: truncation toward zero.
TruncDiv(n, d) ==
    IF (n >= 0) = (d > 0) THEN Abs(n) \div Abs(d) ELSE -(Abs(n) \div Abs(d))

\* cv2.perspectiveTransform of one point followed by numpy.int32: the
\* perspective division, with (0, 0) for a point sent to infinity.
ProjectCorner(x, y, HH) ==
    LET X == HH.a * x + HH.b * y + HH.c
        Y == HH.d * x + HH.e * y + HH.f
        W == HH.g * x + HH.h * y + HH.i
    IN  IF W = 0 THEN <<0, 0>> ELSE <<TruncDiv(X, W), TruncDiv(Y, W)>>

\* A faulty corner list: height and width exchanged.
ThumbCornersSwapped(thumb_h, thumb_w) ==
    << <<0, 0>>, <<thumb_h, 0>>, <<thumb_h, thumb_w>>, <<0, thumb_w>> >>

\* [[0, 0], [thumb_w, 0], [thumb_w, thumb_h], [0, thumb_h]]
ThumbCorners(thumb_h, thumb_w) ==
    << <<0, 0>>, <<thumb_w, 0>>, <<thumb_w, thumb_h>>, <<0, thumb_h>> >>

reconstruct_thumbnail(thumb_h, thumb_w, source_h, source_w, HH, downsize_reconstruction) ==
    LET from    == ThumbCorners(thumb_h, thumb_w)
        corners == [k \in 1..4 |-> ProjectCorner(from[k][1], from[k][2], HH)]
        crop    == CropBox(corners)
        cut     == SliceImage(source_h, source_w, crop)
        rotated == autorotate_image(cut, corners)
        size    == Downsize(rotated.img.h, rotated.img.w, thumb_h, thumb_w,
                            downsize_reconstruction)
    IN  [corners            |-> corners,
         slice_rows         |-> crop[1],
         slice_cols         |-> crop[2],
         new_thumb          |-> rotated.img,
         new_thumb_shape    |-> size,
         new_thumb_crop     |-> crop,
         new_thumb_rotation |-> rotated.rotation]

\* The JSON object locate_thumbnail prints; corners is the crop box returned
\* by reconstruct_thumbnail.
JsonReport(thumb_h, thumb_w, source_h, source_w, corners, rotation) ==
    [master           |-> [height |-> source_h, width |-> source_w],
     thumbnail        |-> [height |-> thumb_h, width |-> thumb_w],
     bounding_box     |-> [height |-> corners[1][2] - corners[1][1],
                           width  |-> corners[2][2] - corners[2][1],
                           x      |-> corners[2][1],
                           y      |-> corners[1][1]],
     rotation_degrees |-> rotation]

\* The linear parts explored, as (a, b, d, e): the identity and the quarter turns.
LinearIdentity == <<1, 0, 0, 1>>
LinearQuarter == <<0, -1, 1, 0>>
LinearHalf == <<-1, 0, 0, -1>>
LinearThreeQuarter == <<0, 1, -1, 0>>
LinearParts == {LinearIdentity, LinearQuarter, LinearHalf, LinearThreeQuarter}

Scales == {1, 2}
Denominators == {1, 2}
\* The bottom row entries (g, h) explored.
Perspectives == {<<0, 0>>, <<-1, 0>>, <<0, -1>>}
Offsets == (-1)..(MaxDim + 1)

Homographies ==
    { Homography(L[1] * s, L[2] * s, c, L[3] * s, L[4] * s, f, gh[1], gh[2], i) :
        L \in LinearParts, s \in Scales, c \in Offsets, f \in Offsets,
        gh \in Perspectives, i \in Denominators }

\* The end-to-end example: a 100x100 thumbnail that is the region
\* (50,50)-(150,150) of a 400x400 source turned by 180 degrees, so that the
\* thumbnail point (x, y) is the source point (150 - x, 150 - y).
EndToEndExample ==
    [thumb_shape  |-> <<100, 100>>,
     source_shape |-> <<400, 400>>,
     H            |-> Homography(-1, 0, 150, 0, -1, 150, 0, 0, 1)]

GeomInit ==
    /\ \/ /\ thumb_shape \in (1..MaxDim) \X (1..MaxDim)
          /\ source_shape \in (1..MaxDim) \X (1..MaxDim)
          /\ H \in Homographies
       \/ /\ thumb_shape = EndToEndExample.thumb_shape
          /\ source_shape = EndToEndExample.source_shape
          /\ H = EndToEndExample.H
    /\ recon = <<>> /\ report = <<>> /\ geom_pc = "start"

\* new_thumbnail, corners, rotation = reconstruct_thumbnail(thumbnail_image,
\* source_image, kp_pairs, H): downsize_reconstruction keeps its default.
ReconstructThumbnail ==
    /\ geom_pc = "start"
    /\ recon' = reconstruct_thumbnail(thumb_shape[1], thumb_shape[2],
                                      source_shape[1], source_shape[2], H, FALSE)
    /\ geom_pc' = "reconstructed"
    /\ UNCHANGED <<thumb_shape, source_shape, H, report, fmVars, fitVars, rotVars, batchVars>>

PrintReport ==
    /\ geom_pc = "reconstructed"
    /\ report' = JsonReport(thumb_shape[1], thumb_shape[2],
                            source_shape[1], source_shape[2],
                            recon.new_thumb_crop, recon.new_thumb_rotation)
    /\ geom_pc' = "reported"
    /\ UNCHANGED <<thumb_shape, source_shape, H, recon, fmVars, fitVars, rotVars, batchVars>>

(***************************************************************************)
(* locate_thumbnail and main                                               *)
(***************************************************************************)
\* Most file arguments explored (two per pair).
MaxFiles == 4
\* Most correspondences the matcher returns.
MaxMatches == 5

\* What a call of open_image can do: return the image or raise.
open_image_outcomes == {"return", "raise"}
\* What a call into cv2 (detectAndCompute, knnMatch, findHomography,
\* perspectiveTransform, imwrite, imshow, ...) can do.
cv2_outcomes == {"return", "raise"}
\* What pdb.pm() does inside the handler: it reads sys.last_traceback, which
\* exists only if an earlier unhandled exception was reported, so it either
\* opens the debugger and returns when the session ends, or raises.
pdb_pm_outcomes == {"return", "raise"}

\* A faulty guard: the threshold lowered to three.
EnoughMatchesThree(n) == n >= 3

\* if len(kp_pairs) >= 4
EnoughMatches(n) == n >= 4

\* find_homography(kp_pairs) for n pairs, given what cv2.findHomography
\* would do: zip(*kp_pairs) cannot be unpacked for an empty list, the
\* assertion stops fewer than four pairs, and only then cv2 is reached.
find_homography(n, cv) ==
    IF n = 0 THEN [result |-> "raise", error |-> "ValueError", reached_cv2 |-> FALSE]
    ELSE IF ~(n >= 4)
         THEN [result |-> "raise", error |-> "AssertionError", reached_cv2 |-> FALSE]
         ELSE [result |-> cv, error |-> IF cv = "raise" THEN "cv2.error" ELSE "none",
               reached_cv2 |-> TRUE]

\* The pair being processed, counted from 1: files[i], files[i + 1].
CurrentPair == file_i \div 2 + 1

BatchIdle ==
    /\ nfiles = 0
    /\ args = [display |-> FALSE, save_visualization |-> FALSE, save_thumbnail |-> FALSE,
               debug |-> FALSE, thumbnail_format |-> "jpg"]
    /\ main_pc = "idle" /\ file_i = 0 /\ loc_pc = "idle" /\ kp_count = 0
    /\ title_bound = FALSE /\ calls = <<>> /\ stdout = <<>> /\ logged = <<>>
    /\ attempted = <<>> /\ raised = {}

BatchInit ==
    /\ nfiles \in 1..MaxFiles
    /\ args \in [display : BOOLEAN, save_visualization : BOOLEAN, save_thumbnail : BOOLEAN,
                 debug : BOOLEAN, thumbnail_format : {"jpg", "png", "gif"}]
    /\ main_pc = "start" /\ file_i = 0 /\ loc_pc = "idle" /\ kp_count = 0
    /\ title_bound = FALSE /\ calls = <<>> /\ stdout = <<>> /\ logged = <<>>
    /\ attempted = <<>> /\ raised = {}

notLocals == <<nfiles, args, file_i, stdout, logged, attempted>>
otherVars == <<fmVars, fitVars, rotVars, geomVars>>

\* parse_args and the two checks of the arguments; parser.error exits.
ParseArgs ==
    /\ main_pc = "start"
    /\ main_pc' = IF nfiles % 2 # 0 THEN "usage_error"
                  ELSE IF args.thumbnail_format \notin {"jpg", "png"} THEN "usage_error"
                  ELSE "loop"
    /\ UNCHANGED <<nfiles, args, file_i, loc_pc, kp_count, title_bound, calls,
                   stdout, logged, attempted, raised, otherVars>>

\* for i in xrange(0, len(args.files), 2): the call of locate_thumbnail for
\* the next pair, or the end of the loop.
LoopStep ==
    /\ main_pc = "loop"
    /\ IF file_i < nfiles
       THEN /\ main_pc' = "locate"
            /\ loc_pc' = "open_thumbnail"
            /\ attempted' = Append(attempted, CurrentPair)
            /\ kp_count' = 0 /\ title_bound' = FALSE /\ calls' = <<>>
       ELSE /\ main_pc' = "done"
            /\ UNCHANGED <<loc_pc, attempted, kp_count, title_bound, calls>>
    /\ UNCHANGED <<nfiles, args, file_i, stdout, logged, raised, otherVars>>

\* An exception leaves locate_thumbnail for the handler in main.
Raise ==
    /\ loc_pc' = "idle"
    /\ main_pc' = "except"
    /\ raised' = raised \cup {CurrentPair}

Goto(next) ==
    /\ loc_pc' = next
    /\ UNCHANGED <<main_pc, raised>>

OpenThumbnail ==
    /\ main_pc = "locate" /\ loc_pc = "open_thumbnail"
    /\ \E o \in open_image_outcomes :
         IF o = "raise" THEN Raise ELSE Goto("open_source")
    /\ UNCHANGED <<notLocals, kp_count, title_bound, calls, otherVars>>

OpenSource ==
    /\ main_pc = "locate" /\ loc_pc = "open_source"
    /\ \E o \in open_image_outcomes :
         IF o = "raise" THEN Raise ELSE Goto("match_images")
    /\ UNCHANGED <<notLocals, kp_count, title_bound, calls, otherVars>>

\* kp_pairs = match_images(thumbnail_image, source_image)
MatchImages ==
    /\ main_pc = "locate" /\ loc_pc = "match_images"
    /\ \/ \E o \in cv2_outcomes :
            /\ o = "raise" /\ Raise /\ UNCHANGED kp_count
       \/ \E n \in 0..MaxMatches :
            /\ kp_count' = n /\ Goto("branch")
    /\ UNCHANGED <<notLocals, title_bound, calls, otherVars>>

\* if len(kp_pairs) >= 4: title is bound ... else: the warning is logged.
Branch ==
    /\ main_pc = "locate" /\ loc_pc = "branch"
    /\ IF EnoughMatches(kp_count)
       THEN /\ title_bound' = TRUE
            /\ Goto("find_homography")
            /\ UNCHANGED logged
       ELSE /\ logged' = Append(logged, [level |-> "WARNING", pair |-> CurrentPair])
            /\ Goto("visualize")
            /\ UNCHANGED title_bound
    /\ UNCHANGED <<nfiles, args, file_i, stdout, attempted, kp_count, calls, otherVars>>

\* H, mask = find_homography(kp_pairs)
FindHomography ==
    /\ main_pc = "locate" /\ loc_pc = "find_homography"
    /\ \E cv \in cv2_outcomes :
         LET r == find_homography(kp_count, cv)
         IN  /\ calls' = calls \o <<"find_homography">>
                            \o (IF r.reached_cv2 THEN <<"cv2.findHomography">> ELSE <<>>)
             /\ IF r.result = "raise" THEN Raise ELSE Goto("reconstruct_thumbnail")
    /\ UNCHANGED <<notLocals, kp_count, title_bound, otherVars>>

\* new_thumbnail, corners, rotation = reconstruct_thumbnail(...)
LocateReconstruct ==
    /\ main_pc = "locate" /\ loc_pc = "reconstruct_thumbnail"
    /\ calls' = Append(calls, "reconstruct_thumbnail")
    /\ \E o \in cv2_outcomes :
         IF o = "raise" THEN Raise ELSE Goto("print")
    /\ UNCHANGED <<notLocals, kp_count, title_bound, otherVars>>

\* print(json.dumps({...}))
PrintJson ==
    /\ main_pc = "locate" /\ loc_pc = "print"
    /\ calls' = Append(calls, "print")
    /\ stdout' = Append(stdout, CurrentPair)
    /\ Goto("save_reconstruction")
    /\ UNCHANGED <<nfiles, args, file_i, logged, attempted, kp_count, title_bound, otherVars>>

\* if save_reconstruction: cv2.imwrite(new_filename, new_thumbnail)
SaveReconstruction ==
    /\ main_pc = "locate" /\ loc_pc = "save_reconstruction"
    /\ IF args.save_thumbnail
       THEN \E o \in cv2_outcomes : IF o = "raise" THEN Raise ELSE Goto("visualize")
       ELSE Goto("visualize")
    /\ UNCHANGED <<notLocals, kp_count, title_bound, calls, otherVars>>

\* if display or save_visualization: vis_image = visualize_matches(...)
Visualize ==
    /\ main_pc = "locate" /\ loc_pc = "visualize"
    /\ IF args.display \/ args.save_visualization
       THEN \E o \in cv2_outcomes : IF o = "raise" THEN Raise ELSE Goto("save_visualization")
       ELSE Goto("save_visualization")
    /\ UNCHANGED <<notLocals, kp_count, title_bound, calls, otherVars>>

\* if save_visualization: cv2.imwrite(vis_filename, vis_image)
SaveVisualization ==
    /\ main_pc = "locate" /\ loc_pc = "save_visualization"
    /\ IF args.save_visualization
       THEN \E o \in cv2_outcomes : IF o = "raise" THEN Raise ELSE Goto("display")
       ELSE Goto("display")
    /\ UNCHANGED <<notLocals, kp_count, title_bound, calls, otherVars>>

\* if display: cv2.imshow(title, vis_image) ...: reading title raises
\* UnboundLocalError when the branch that binds it was not taken.
Display ==
    /\ main_pc = "locate" /\ loc_pc = "display"
    /\ IF args.display
       THEN IF ~title_bound THEN Raise
            ELSE \E o \in cv2_outcomes : IF o = "raise" THEN Raise ELSE Goto("return")
       ELSE Goto("return")
    /\ UNCHANGED <<notLocals, kp_count, title_bound, calls, otherVars>>

\* locate_thumbnail returns and the loop goes on to the next pair.
Return ==
    /\ main_pc = "locate" /\ loc_pc = "return"
    /\ loc_pc' = "idle"
    /\ main_pc' = "loop"
    /\ file_i' = file_i + 2
    /\ UNCHANGED <<nfiles, args, stdout, logged, attempted, raised,
                   kp_count, title_bound, calls, otherVars>>

\* except Exception as e: logging.error(...); if args.debug: pdb.pm()
HandleException ==
    /\ main_pc = "except"
    /\ logged' = Append(logged, [level |-> "ERROR", pair |-> CurrentPair])
    /\ IF args.debug
       THEN \E o \in pdb_pm_outcomes :
              IF o = "raise"
              THEN main_pc' = "aborted" /\ UNCHANGED file_i
              ELSE main_pc' = "loop" /\ file_i' = file_i + 2
       ELSE main_pc' = "loop" /\ file_i' = file_i + 2
    /\ UNCHANGED <<nfiles, args, stdout, attempted, raised, loc_pc,
                   kp_count, title_bound, calls, otherVars>>

\* find_homography called on its own with n pairs.
CallFindHomography ==
    /\ main_pc = "start"
    /\ \E n \in 0..MaxMatches, cv \in cv2_outcomes :
         LET r == find_homography(n, cv)
         IN  /\ kp_count' = n
             /\ calls' = <<"find_homography">>
                            \o (IF r.reached_cv2 THEN <<"cv2.findHomography">> ELSE <<>>)
             /\ main_pc' = IF r.result = "raise" THEN "direct_raised" ELSE "direct_returned"
    /\ UNCHANGED <<nfiles, args, file_i, loc_pc, title_bound, stdout, logged,
                   attempted, raised, otherVars>>

(***************************************************************************)
(* Claims about locate_thumbnail and main                                  *)
(***************************************************************************)
Range(q) == {q[j] : j \in DOMAIN q}

IsPrefix(q, t) == Len(q) <= Len(t) /\ \A j \in 1..Len(q) : q[j] = t[j]

\* The calls of the geometry stages, in the order the report needs them.
GeometryCalls ==
    <<"find_homography", "cv2.findHomography", "reconstruct_thumbnail", "print">>

\* locate_thumbnail has decided on the match count of the current pair.
PastBranch ==
    \/ main_pc = "locate" /\ loc_pc \notin {"open_thumbnail", "open_source",
                                            "match_images", "branch"}
    \/ main_pc \in {"except", "aborted"}

\* C1: cv2.findHomography is reached only with at least 4 pairs; with
\* n >= 4 locate_thumbnail calls find_homography, reconstruct_thumbnail and
\* the report in that order; with n < 4 it calls none of them and logs the
\* no-match warning; find_homography called on its own with fewer than 4
\* pairs raises before cv2.findHomography.
C1_HomographyNeedsFour ==
    /\ "cv2.findHomography" \in Range(calls) => kp_count >= 4
    /\ main_pc \in {"locate", "except", "aborted"} =>
           /\ IsPrefix(calls, GeometryCalls)
           /\ CurrentPair \in Range(stdout) => calls = GeometryCalls
           /\ kp_count < 4 => calls = <<>>
    /\ (PastBranch /\ main_pc = "locate") =>
           IF kp_count >= 4
           THEN /\ calls # <<>> => calls[1] = "find_homography"
                /\ [level |-> "WARNING", pair |-> CurrentPair] \notin Range(logged)
           ELSE /\ calls = <<>>
                /\ CurrentPair \notin Range(stdout)
                /\ [level |-> "WARNING", pair |-> CurrentPair] \in Range(logged)
    /\ (main_pc \in {"direct_raised", "direct_returned"} /\ kp_count < 4) =>
           main_pc = "direct_raised" /\ calls = <<"find_homography">>

\* A pair with too few matches was skipped, and the next pair, with exactly
\* four matches, went through the three stages and is about to return.
C1_Witness ==
    /\ main_pc = "locate" /\ loc_pc = "return"
    /\ kp_count = 4
    /\ calls = GeometryCalls
    /\ stdout = <<2>>
    /\ logged = <<[level |-> "WARNING", pair |-> 1]>>

Count(q, x) == Cardinality({j \in DOMAIN q : q[j] = x})

\* The reports and the skip or failure messages a pair has produced.
Reports(k) == Count(stdout, k)
Failures(k) ==
    Count(logged, [level |-> "WARNING", pair |-> k])
        + Count(logged, [level |-> "ERROR", pair |-> k])

\* The loop is through with pair k.
Processed(k) == k \in Range(attempted) /\ (k < CurrentPair \/ main_pc = "aborted")

\* C7: every processed pair has produced exactly one outcome: one report or
\* one skip/failure message, never both, never two messages, never none.
C7_ExactlyOneOutcome ==
    \A k \in Range(attempted) : Processed(k) => Reports(k) + Failures(k) = 1

\* main has stopped after accepting its arguments.
MainStopped == main_pc \in {"done", "aborted"}

\* C8: the pairs are attempted once each in input order; each pair that
\* raised has its failure recorded, and no other pair has one; when main
\* stops every pair of the list has been attempted, whichever pairs raised;
\* a list of odd length is rejected before any pair is attempted.
C8_BatchIsolation ==
    /\ \A j \in DOMAIN attempted : attempted[j] = j
    /\ \A k \in Range(attempted) :
           Processed(k) =>
               (k \in raised <=> [level |-> "ERROR", pair |-> k] \in Range(logged))
    /\ MainStopped => Len(attempted) = nfiles \div 2
    /\ nfiles % 2 # 0 =>
           attempted = <<>> /\ main_pc \in {"start", "usage_error",
                                            "direct_raised", "direct_returned"}

(***************************************************************************)
(* Claims about reconstruct_thumbnail and the report                       *)
(***************************************************************************)
Reconstructed == geom_pc \in {"reconstructed", "reported"}

\* Some thumbnail corner is projected, before truncation, outside the source
\* image: x < 0, x > source_width, y < 0 or y > source_height.
ProjectsOutside ==
    \E k \in 1..4 :
        LET pt == ThumbCorners(thumb_shape[1], thumb_shape[2])[k]
            X  == H.a * pt[1] + H.b * pt[2] + H.c
            Y  == H.d * pt[1] + H.e * pt[2] + H.f
            W  == H.g * pt[1] + H.h * pt[2] + H.i
            sg == IF W < 0 THEN -1 ELSE 1
        IN  /\ W # 0
            /\ \/ sg * X < 0 \/ sg * X > source_shape[2] * Abs(W)
               \/ sg * Y < 0 \/ sg * Y > source_shape[1] * Abs(W)

\* C2: when the projection of the corners leaves the source image, the crop
\* box returned, the slice bounds used and the reported box are clamped:
\* 0 <= y_min <= y_max <= source_height and 0 <= x_min <= x_max <= source_width.
C2_CropBoxClamped ==
    (Reconstructed /\ ProjectsOutside) =>
        /\ 0 <= recon.new_thumb_crop[1][1]
        /\ recon.new_thumb_crop[1][1] <= recon.new_thumb_crop[1][2]
        /\ recon.new_thumb_crop[1][2] <= source_shape[1]
        /\ 0 <= recon.new_thumb_crop[2][1]
        /\ recon.new_thumb_crop[2][1] <= recon.new_thumb_crop[2][2]
        /\ recon.new_thumb_crop[2][2] <= source_shape[2]
        /\ \A b \in {recon.slice_rows[1], recon.slice_rows[2]} : b \in 0..source_shape[1]
        /\ \A b \in {recon.slice_cols[1], recon.slice_cols[2]} : b \in 0..source_shape[2]
        /\ geom_pc = "reported" =>
               /\ report.bounding_box.x >= 0 /\ report.bounding_box.y >= 0
               /\ report.bounding_box.x + report.bounding_box.width <= source_shape[2]
               /\ report.bounding_box.y + report.bounding_box.height <= source_shape[1]

IsEndToEndExample ==
    /\ thumb_shape = EndToEndExample.thumb_shape
    /\ source_shape = EndToEndExample.source_shape
    /\ H = EndToEndExample.H

\* C3: for the end-to-end example the report has bounding box height 100,
\* width 100, x 50, y 50 and rotation_degrees 180.
C3_EndToEnd180 ==
    (geom_pc = "reported" /\ IsEndToEndExample) =>
        /\ report.bounding_box = [height |-> 100, width |-> 100, x |-> 50, y |-> 50]
        /\ report.rotation_degrees = 180

\* H is exactly a quarter turn with a scale and a shift, and the region it
\* cuts lies within the source: the thumbnail point (x, y) is the source
\* point ((c - s*y) / i, (f + s*x) / i).
IsQuarterTurnCrop ==
    /\ H.a = 0 /\ H.e = 0 /\ H.g = 0 /\ H.h = 0 /\ H.i > 0
    /\ H.d > 0 /\ H.b = -H.d
    /\ 0 <= H.c - H.d * thumb_shape[1] /\ H.c <= source_shape[2] * H.i
    /\ 0 <= H.f /\ H.f + H.d * thumb_shape[2] <= source_shape[1] * H.i

\* C4: for an exact crop + scale + 90-degree rotation the crop box returned
\* is the known region to within 2 pixels on every edge and the rotation
\* class is 90.
C4_QuarterTurnRoundTrip ==
    (Reconstructed /\ IsQuarterTurnCrop) =>
        /\ Abs(recon.new_thumb_crop[2][1] * H.i - (H.c - H.d * thumb_shape[1])) <= 2 * H.i
        /\ Abs(recon.new_thumb_crop[2][2] * H.i - H.c) <= 2 * H.i
        /\ Abs(recon.new_thumb_crop[1][1] * H.i - H.f) <= 2 * H.i
        /\ Abs(recon.new_thumb_crop[1][2] * H.i - (H.f + H.d * thumb_shape[2])) <= 2 * H.i
        /\ recon.new_thumb_rotation = 90

\* H is the identity map (any non-zero multiple of the unit matrix).
IsIdentityHomography ==
    /\ H.a = H.i /\ H.e = H.i /\ H.i # 0
    /\ H.b = 0 /\ H.c = 0 /\ H.d = 0 /\ H.f = 0 /\ H.g = 0 /\ H.h = 0

\* C5: when the thumbnail has the source's size h x w and the homography is
\* the identity, the crop box is ((0, h), (0, w)), the region is the whole
\* source, the rotation class is 0 and the reported box is height h,
\* width w, x 0, y 0.
C5_IdentityCase ==
    (Reconstructed /\ IsIdentityHomography /\ thumb_shape = source_shape) =>
        /\ recon.new_thumb_crop = << <<0, source_shape[1]>>, <<0, source_shape[2]>> >>
        /\ recon.new_thumb = View(source_shape[1], source_shape[2], 0, 0, 1, 0, 0, 1)
        /\ recon.new_thumb_rotation = 0
        /\ geom_pc = "reported" =>
               /\ report.bounding_box = [height |-> source_shape[1],
                                         width |-> source_shape[2], x |-> 0, y |-> 0]
               /\ report.rotation_degrees = 0

\* The identity case reported for an image that is not square.
C5_Witness ==
    /\ geom_pc = "reported"
    /\ IsIdentityHomography
    /\ thumb_shape = source_shape
    /\ source_shape[1] # source_shape[2]

(***************************************************************************)
(* Claims about autorotate_image                                           *)
(***************************************************************************)
\* The lowest index, counted from 0, at which s takes its least value.
LowestIndexOfMin(s) ==
    (CHOOSE k \in 1..Len(s) :
        /\ \A j \in 1..Len(s) : s[k] <= s[j]
        /\ \A j \in 1..(k - 1) : s[j] > s[k]) - 1

\* The lowest index, counted from 0, at which s takes its greatest value.
LowestIndexOfMax(s) ==
    (CHOOSE k \in 1..Len(s) :
        /\ \A j \in 1..Len(s) : s[k] >= s[j]
        /\ \A j \in 1..(k - 1) : s[j] < s[k]) - 1

\* p = (index of min y, index of max y, index of min x, index of max x)
CornerOrdering ==
    <<LowestIndexOfMin([k \in 1..4 |-> rot_corners[k][2]]),
      LowestIndexOfMax([k \in 1..4 |-> rot_corners[k][2]]),
      LowestIndexOfMin([k \in 1..4 |-> rot_corners[k][1]]),
      LowestIndexOfMax([k \in 1..4 |-> rot_corners[k][1]])>>

\* C10: the rotation class is 90 iff p = (0,1,3,1), 180 iff p = (3,0,1,0),
\* 270 iff p = (1,3,0,2) and 0, with the region returned unchanged, for every
\* other ordering; it is always one of 0, 90, 180, 270; for 90 and 270 the
\* region's height and width are swapped, for 0 and 180 they are kept.
C10_RotationClassifier ==
    rot_pc = "done" =>
        /\ rot_out.rotation \in {0, 90, 180, 270}
        /\ rot_out.rotation = 90 <=> CornerOrdering = <<0, 1, 3, 1>>
        /\ rot_out.rotation = 180 <=> CornerOrdering = <<3, 0, 1, 0>>
        /\ rot_out.rotation = 270 <=> CornerOrdering = <<1, 3, 0, 2>>
        /\ rot_out.rotation = 0 => rot_out.img = rot_img
        /\ rot_out.rotation \in {90, 270} =>
               rot_out.img.h = rot_img.w /\ rot_out.img.w = rot_img.h
        /\ rot_out.rotation \in {0, 180} =>
               rot_out.img.h = rot_img.h /\ rot_out.img.w = rot_img.w

\* A 270-degree ordering classified, on a region that is not square.
C10_Witness ==
    /\ rot_pc = "done"
    /\ rot_out.rotation = 270
    /\ rot_img.h # rot_img.w
    /\ rot_img.h > 0 /\ rot_img.w > 0

(***************************************************************************)
(* Claims about filter_matches                                             *)
(***************************************************************************)
\* The rows of the raw matches that pass the ratio test with ratio num/RatioDen.
PassingRows(num) ==
    { k \in 1..Len(raw_matches) :
        raw_matches[k].m1_distance * RatioDen < raw_matches[k].m2_distance * num }

StrictlyIncreasing(s) == \A a, b \in 1..Len(s) : a < b => s[a] < s[b]

\* s is t with some elements removed.
RECURSIVE IsSubsequence(_, _)
IsSubsequence(s, t) ==
    IF s = <<>> THEN TRUE
    ELSE IF t = <<>> THEN FALSE
    ELSE IF Head(s) = Head(t) THEN IsSubsequence(Tail(s), Tail(t))
    ELSE IsSubsequence(s, Tail(t))

\* C9: filter_matches keeps the pair of m1 exactly when
\* m1.distance < ratio * m2.distance, in input order; and for ratios
\* r1 <= r2 on the same raw matches the pairs kept with r1 are a subsequence
\* of those kept with r2, so there are no more of them.
C9_RatioTestMonotone ==
    fm_pc = "done" =>
        /\ StrictlyIncreasing(kp_pairs_lo)
        /\ StrictlyIncreasing(kp_pairs_hi)
        /\ {kp_pairs_lo[a] : a \in 1..Len(kp_pairs_lo)} = PassingRows(ratio_lo)
        /\ {kp_pairs_hi[a] : a \in 1..Len(kp_pairs_hi)} = PassingRows(ratio_hi)
        /\ IsSubsequence(kp_pairs_lo, kp_pairs_hi)
        /\ Len(kp_pairs_lo) <= Len(kp_pairs_hi)

\* A lower ratio has dropped a pair that the higher one keeps, and kept one.
C9_Witness ==
    /\ fm_pc = "done"
    /\ ratio_lo < ratio_hi
    /\ 1 <= Len(kp_pairs_lo)
    /\ Len(kp_pairs_lo) < Len(kp_pairs_hi)

(***************************************************************************)
(* Claims about fit_image_within                                           *)
(***************************************************************************)
\* C6: a region that exceeds the bound on some axis comes back with
\* new_h <= max_height and new_w <= max_width and with its aspect ratio kept
\* up to the rounding of the two sides; a region that fits comes back
\* unchanged.
C6_DownscaleFitsWithin ==
    fit_pc = "fitted" =>
        IF fit_in.current_h <= fit_in.max_height /\ fit_in.current_w <= fit_in.max_width
        THEN fit_out = [h |-> fit_in.current_h, w |-> fit_in.current_w, resized |-> FALSE]
        ELSE /\ fit_out.h <= fit_in.max_height
             /\ fit_out.w <= fit_in.max_width
             /\ 2 * Abs(fit_out.h * fit_in.current_w - fit_out.w * fit_in.current_h)
                    <= fit_in.current_h + fit_in.current_w

(***************************************************************************)
(* Specifications                                                          *)
(***************************************************************************)
GeomIdle ==
    /\ thumb_shape = <<0, 0>> /\ source_shape = <<0, 0>> /\ H = <<>>
    /\ recon = <<>> /\ report = <<>> /\ geom_pc = "idle"

InitFilter == FilterInit /\ FitIdle /\ RotIdle /\ GeomIdle /\ BatchIdle
NextFilter == FilterMatches
SpecFilter == InitFilter /\ [][NextFilter]_vars

InitFit == FitInit /\ FilterIdle /\ RotIdle /\ GeomIdle /\ BatchIdle
NextFit == FitImageWithin \/ DownsizeReconstruction
SpecFit == InitFit /\ [][NextFit]_vars

InitGeom == GeomInit /\ FilterIdle /\ FitIdle /\ RotIdle /\ BatchIdle
NextGeom == ReconstructThumbnail \/ PrintReport
SpecGeom == InitGeom /\ [][NextGeom]_vars

InitBatch == BatchInit /\ FilterIdle /\ FitIdle /\ RotIdle /\ GeomIdle
NextBatch ==
    \/ ParseArgs \/ LoopStep \/ OpenThumbnail \/ OpenSource \/ MatchImages
    \/ Branch \/ FindHomography \/ LocateReconstruct \/ PrintJson
    \/ SaveReconstruction \/ Visualize \/ SaveVisualization \/ Display
    \/ Return \/ HandleException \/ CallFindHomography
Spec == InitBatch /\ [][NextBatch]_vars

InitRotate == RotInit /\ FilterIdle /\ FitIdle /\ GeomIdle /\ BatchIdle
NextRotate == AutorotateImage
SpecRotate == InitRotate /\ [][NextRotate]_vars

=============================================================================
